---- MODULE Spec2Model ----
(***************************************************************************)
(* Quantum Travel AI backend (backend/main.py): the conversation store,    *)
(* the chat request handler, the history reader, the WebSocket connection  *)
(* manager and the WebSocket session handler, as one state machine.        *)
(*                                                                         *)
(* The handlers are asyncio coroutines: a handler runs without             *)
(* interruption from one await to the next, so every action below is one   *)
(* such uninterrupted block of a handler.                                  *)
(*                                                                         *)
(* Text is a sequence of one-character strings, so that lower-casing,      *)
(* substring search, concatenation and number formatting are computed.     *)
(***************************************************************************)
EXTENDS Integers, Sequences, FiniteSets, TLC

(***************************************************************************)
(* Bounds of the model.                                                    *)
(***************************************************************************)
\* chat requests issued in one run
MaxReqs == 2
\* clock ticks (microseconds) that pass in one run
MaxClock == 1
\* WebSocket connections opened in one run
MaxSessions == 2
\* inbound frames one WebSocket session receives
MaxFrames == 2
\* calls of ConnectionManager.broadcast in one run
MaxBroadcasts == 1
\* chat requests, WebSocket connections and frames per connection of the
\* combined specification
MixReqs == 2
MixSessions == 1
MixFrames == 1
\* WebSocket connections of the registry specification
RegSessions == 3

Reqs == 1..MaxReqs
Sessions == 1..RegSessions

(***************************************************************************)
(* Text helpers.                                                           *)
(***************************************************************************)
UpperLetters ==
    <<"A", "B", "C", "D", "E", "F", "G", "H", "I", "J", "K", "L", "M",
      "N", "O", "P", "Q", "R", "S", "T", "U", "V", "W", "X", "Y", "Z">>
LowerLetters ==
    <<"a", "b", "c", "d", "e", "f", "g", "h", "i", "j", "k", "l", "m",
      "n", "o", "p", "q", "r", "s", "t", "u", "v", "w", "x", "y", "z">>
DigitChars == <<"0", "1", "2", "3", "4", "5", "6", "7", "8", "9">>

\* str.lower() of one character (ASCII letters)
LowerChar(c) ==
    IF \E i \in 1..26 : UpperLetters[i] = c
    THEN LowerLetters[CHOOSE i \in 1..26 : UpperLetters[i] = c]
    ELSE c

\* str.lower()
Lower(s) == [i \in 1..Len(s) |-> LowerChar(s[i])]

\* the Python test `w in s` on two strings
Contains(s, w) ==
    \E i \in 1..(Len(s) - Len(w) + 1) : SubSeq(s, i, i + Len(w) - 1) = w

\* decimal digits of a natural number
RECURSIVE Digits(_)
Digits(n) ==
    IF n < 10 THEN <<DigitChars[n + 1]>>
    ELSE Digits(n \div 10) \o <<DigitChars[(n % 10) + 1]>>

\* the last `width` decimal digits of n, zero-padded
RECURSIVE PadDigits(_, _)
PadDigits(n, width) ==
    IF width = 0 THEN <<>>
    ELSE PadDigits(n \div 10, width - 1) \o <<DigitChars[(n % 10) + 1]>>

\* trailing zeros dropped, one digit kept
RECURSIVE StripZeros(_)
StripZeros(s) ==
    IF Len(s) > 1 /\ s[Len(s)] = "0"
    THEN StripZeros(SubSeq(s, 1, Len(s) - 1))
    ELSE s

(***************************************************************************)
(* The clock.  datetime.utcnow() has microsecond resolution; `clock` is    *)
(* the current reading in microseconds.                                    *)
(***************************************************************************)
MicrosPerSecond == 1000000
ClockStart == MicrosPerSecond
ClockEnd == ClockStart + MaxClock

\* str(datetime.timestamp()): seconds, a point, the microseconds without
\* trailing zeros ("1.0", "1.000001", "1.00001")
FormatTimestampTruncated(t) == Digits(t \div MicrosPerSecond)
FormatTimestamp(t) ==
    Digits(t \div MicrosPerSecond) \o <<".">>
        \o StripZeros(PadDigits(t % MicrosPerSecond, 6))

\* datetime.isoformat(), from the seconds on: "SS", or "SS.ffffff" when
\* the microseconds are not zero (the fields before are of fixed width)
IsoFormat(t) ==
    PadDigits((t \div MicrosPerSecond) % 60, 2)
        \o (IF t % MicrosPerSecond = 0 THEN <<>>
            ELSE <<".">> \o PadDigits(t % MicrosPerSecond, 6))

ConvPrefix == <<"c", "o", "n", "v", "_">>

\* f"conv_{datetime.utcnow().timestamp()}"
NewConversationId(t) == ConvPrefix \o FormatTimestamp(t)

(***************************************************************************)
(* AIEngine.generate_response: the keyword classifier.                     *)
(***************************************************************************)
GreetingWords ==
    { <<"h", "e", "l", "l", "o">>,
      <<"h", "i">>,
      <<"h", "e", "y">>,
      <<"g", "r", "e", "e", "t", "i", "n", "g", "s">> }
CodeWords ==
    { <<"c", "o", "d", "e">>,
      <<"p", "r", "o", "g", "r", "a", "m">>,
      <<"f", "u", "n", "c", "t", "i", "o", "n">>,
      <<"p", "y", "t", "h", "o", "n">>,
      <<"j", "a", "v", "a", "s", "c", "r", "i", "p", "t">> }
MathWords ==
    { <<"c", "a", "l", "c", "u", "l", "a", "t", "e">>,
      <<"m", "a", "t", "h">>,
      <<"e", "q", "u", "a", "t", "i", "o", "n">>,
      <<"s", "o", "l", "v", "e">> }
InfoWords ==
    { <<"w", "h", "a", "t">>,
      <<"h", "o", "w">>,
      <<"w", "h", "y">>,
      <<"e", "x", "p", "l", "a", "i", "n">> }
CapabilityWords ==
    { <<"f", "e", "a", "t", "u", "r", "e", "s">>,
      <<"c", "a", "p", "a", "b", "i", "l", "i", "t", "i", "e", "s">>,
      <<"c", "a", "n", " ", "y", "o", "u">>,
      <<"a", "b", "i", "l", "i", "t", "i", "e", "s">> }

AnyIn(words, s) == \E w \in words : Contains(s, w)

\* The reply text: the canned text of the first matching branch; the
\* "info" and "default" texts quote the message (f-string), the others
\* do not.  model and context are not read.
GenerateResponse(message, model, context) ==
    LET message_lower == Lower(message) IN
    IF AnyIn(GreetingWords, message_lower)
        THEN [text |-> "greeting", quoted |-> <<>>]
    ELSE IF AnyIn(CodeWords, message_lower)
        THEN [text |-> "code", quoted |-> <<>>]
    ELSE IF AnyIn(MathWords, message_lower)
        THEN [text |-> "math", quoted |-> <<>>]
    ELSE IF AnyIn(InfoWords, message_lower)
        THEN [text |-> "info", quoted |-> message]
    ELSE IF AnyIn(CapabilityWords, message_lower)
        THEN [text |-> "capabilities", quoted |-> <<>>]
    ELSE [text |-> "default", quoted |-> message]

(***************************************************************************)
(* Inputs.                                                                 *)
(***************************************************************************)
\* the default of ChatRequest.model and of a frame's "model"
DefaultModel == "quantum-ai"

\* request bodies a client posts (message, model): "Hi" is answered by the
\* greeting branch, "why" by the branch that quotes the message
ChatBodies ==
    { [message |-> <<"H", "i">>, model |-> "quantum-ai"],
      [message |-> <<"w", "h", "y">>, model |-> "quantum-pro"] }

\* Optional[str]
None == [some |-> FALSE, val |-> <<>>]
Some(x) == [some |-> TRUE, val |-> x]
\* Python truthiness of an Optional[str]: None and "" are falsy
Truthy(o) == o.some /\ o.val # <<>>

\* conversation ids a caller makes up: "", "a", "b"
CallerIds == { <<>>, <<"a">>, <<"b">> }

VARIABLES
    clock,                  \* datetime.utcnow(), in microseconds
    conversation_history,   \* main.py:76  id -> list of messages
    requests,               \* the chat requests: position, input, locals, response
    lastHistory,            \* the id get_history was asked and its answer,
                            \* while the answer is current
    active_connections,     \* manager.active_connections, main.py:111
    sessions,               \* the websocket_endpoint coroutines
    transport,              \* per WebSocket: is the peer still there
    sent,                   \* per WebSocket: the frames delivered to the peer
    bc                      \* the broadcast coroutine

vars == <<clock, conversation_history, requests, lastHistory,
          active_connections, sessions, transport, sent, bc>>

chatVars == <<conversation_history, requests, lastHistory>>
wsVars == <<active_connections, sessions, transport, sent, bc>>

(***************************************************************************)
(* The conversation store (main.py:76) and the chat handler.               *)
(***************************************************************************)
\* request.conversation_id or f"conv_{datetime.utcnow().timestamp()}"
ResolveConversationIdIgnoringSupplied(supplied, t) == NewConversationId(t)
ResolveConversationIdCounting(supplied, t) ==
    IF Truthy(supplied) THEN supplied.val
    ELSE ConvPrefix \o Digits(Cardinality(DOMAIN conversation_history))
ResolveConversationId(supplied, t) ==
    IF Truthy(supplied) THEN supplied.val ELSE NewConversationId(t)

\* if conversation_id not in conversation_history:
\*     conversation_history[conversation_id] = []
EnsureRecordResetting(h, cid) ==
    [x \in DOMAIN h \cup {cid} |-> IF x = cid THEN <<>> ELSE h[x]]
EnsureRecord(h, cid) ==
    IF cid \in DOMAIN h THEN h
    ELSE [x \in DOMAIN h \cup {cid} |-> IF x = cid THEN <<>> ELSE h[x]]

\* conversation_history[conversation_id].append(message)
AppendMessageToAll(h, cid, m) == [x \in DOMAIN h |-> Append(h[x], m)]
AppendMessageAssigning(h, cid, m) == [h EXCEPT ![cid] = <<m>>]
AppendMessage(h, cid, m) == [h EXCEPT ![cid] = Append(@, m)]

NewMessageStampedOnce(role, content, t) ==
    [role |-> role, content |-> content,
     timestamp |-> IF role = "assistant" THEN ClockStart ELSE t]
NewMessage(role, content, t) ==
    [role |-> role, content |-> content, timestamp |-> t]

\* ChatResponse (its timestamp and tokens_used are left out)
NoResponse ==
    [status |-> 0, response |-> [text |-> "", quoted |-> <<>>],
     conversation_id |-> <<>>, model |-> DefaultModel]

\* lastHistory when no get_history answer is current
NoHistory ==
    [asked |-> <<>>,
     result |-> [status |-> 0, conversation_id |-> <<>>, messages |-> <<>>]]

IdleRequest ==
    [pc |-> "idle", message |-> <<>>, supplied |-> None,
     model |-> DefaultModel, conversation_id |-> <<>>, id_clock |-> 0,
     response |-> NoResponse]

\* the ids earlier responses returned: a client may send one back
ReturnedIds ==
    { requests[q].response.conversation_id :
        q \in { x \in Reqs : requests[x].response.status = 200 } }

\* ChatRequest.conversation_id: absent, made up, or a returned one
SuppliedChoices(ids) == {None} \cup { Some(x) : x \in ids \cup ReturnedIds }

\* time passes
Tick ==
    /\ clock < ClockEnd
    /\ clock' = clock + 1
    /\ UNCHANGED <<chatVars, wsVars>>

\* chat(), from the call to the suspension in generate_response:
\* resolve the id, create the record, append the user message.
\* The requests are numbered in the order they arrive.  `adv` is the time
\* that passes between the two clock readings of the block.
ChatStart(r, message, supplied, model, adv) ==
    /\ requests[r].pc = "idle"
    /\ \A q \in Reqs : q < r => requests[q].pc # "idle"
    /\ clock + adv <= ClockEnd
    /\ LET conversation_id == ResolveConversationId(supplied, clock)
           user_message == NewMessage("user", message, clock + adv)
       IN /\ conversation_history' =
                AppendMessage(EnsureRecord(conversation_history, conversation_id),
                              conversation_id, user_message)
          /\ requests' = [requests EXCEPT ![r] =
                [pc |-> "generating", message |-> message,
                 supplied |-> supplied, model |-> model,
                 conversation_id |-> conversation_id,
                 id_clock |-> IF Truthy(supplied) THEN 0 ELSE clock,
                 response |-> NoResponse]]
    /\ clock' = clock + adv
    /\ lastHistory' = NoHistory
    /\ UNCHANGED wsVars

\* chat(), from the resumption to the return: compute the reply, append
\* the assistant message, build the ChatResponse.  The store has changed,
\* so a recorded get_history answer is no longer current.
ChatFinish(r) ==
    /\ requests[r].pc = "generating"
    /\ LET req == requests[r]
           ai_response ==
               GenerateResponse(req.message, req.model,
                                conversation_history[req.conversation_id])
           assistant_message == NewMessage("assistant", ai_response, clock)
       IN /\ conversation_history' =
                AppendMessage(conversation_history, req.conversation_id,
                              assistant_message)
          /\ requests' = [requests EXCEPT ![r].pc = "done",
                ![r].response =
                    [status |-> 200, response |-> ai_response,
                     conversation_id |-> req.conversation_id,
                     model |-> req.model]]
    /\ lastHistory' = NoHistory
    /\ UNCHANGED <<clock, wsVars>>

\* chat(), generate_response raises instead of returning (it is the place
\* a real model is called from): the `except Exception` logs and raises
\* HTTPException(500).  Nothing is undone and nothing is appended; the
\* 500 answer carries no conversation id.
ChatFailDroppingUserMessage(r) ==
    /\ requests[r].pc = "generating"
    /\ LET c == requests[r].conversation_id
           h == conversation_history[c]
       IN conversation_history' =
            [conversation_history EXCEPT ![c] = SubSeq(h, 1, Len(h) - 1)]
    /\ requests' = [requests EXCEPT ![r].pc = "done",
                                    ![r].response.status = 500]
    /\ UNCHANGED <<clock, lastHistory, wsVars>>
ChatFail(r) ==
    /\ requests[r].pc = "generating"
    /\ requests' = [requests EXCEPT ![r].pc = "done",
                                    ![r].response.status = 500]
    /\ UNCHANGED <<clock, conversation_history, lastHistory, wsVars>>

\* get_history(conversation_id)
GetHistoryResultOrError(conversation_id) ==
    IF conversation_id \in DOMAIN conversation_history
    THEN [status |-> 200, conversation_id |-> conversation_id,
          messages |-> conversation_history[conversation_id]]
    ELSE [status |-> 404, conversation_id |-> conversation_id,
          messages |-> <<>>]
GetHistoryResultDroppingLast(conversation_id) ==
    IF conversation_id \in DOMAIN conversation_history
    THEN [status |-> 200, conversation_id |-> conversation_id,
          messages |->
            SubSeq(conversation_history[conversation_id], 1,
                   Len(conversation_history[conversation_id]) - 1)]
    ELSE [status |-> 200, conversation_id |-> conversation_id,
          messages |-> <<>>]
GetHistoryResult(conversation_id) ==
    IF conversation_id \in DOMAIN conversation_history
    THEN [status |-> 200, conversation_id |-> conversation_id,
          messages |-> conversation_history[conversation_id]]
    ELSE [status |-> 200, conversation_id |-> conversation_id,
          messages |-> <<>>]

\* ids a client asks the history of: its own, returned ones, unknown ones
QueryIds(ids) == (ids \ {<<>>}) \cup DOMAIN conversation_history

GetHistory(conversation_id) ==
    /\ lastHistory' = [asked |-> conversation_id,
                        result |-> GetHistoryResult(conversation_id)]
    /\ UNCHANGED <<clock, conversation_history, requests, wsVars>>

(***************************************************************************)
(* manager.active_connections: a Python dict.  It is kept as the dict's    *)
(* entry array: a new key is appended, an existing key keeps its slot,     *)
(* a deleted key leaves an empty slot behind.  (A dict of fewer than six   *)
(* insertions is never compacted.)                                         *)
(***************************************************************************)
ClientIds == <<"c1", "c2">>

EmptySlot == [key |-> "", value |-> 0]

LiveSlots(conns) == { i \in 1..Len(conns) : conns[i] # EmptySlot }
HasKey(conns, k) == \E i \in LiveSlots(conns) : conns[i].key = k
SlotOf(conns, k) == CHOOSE i \in LiveSlots(conns) : conns[i].key = k
DictLen(conns) == Cardinality(LiveSlots(conns))
DictValues(conns) == { conns[i].value : i \in LiveSlots(conns) }

\* ConnectionManager.connect, after the accept:
\*     self.active_connections[client_id] = websocket
ConnectAppending(conns, websocket, client_id) ==
    Append(conns, [key |-> client_id, value |-> websocket])
Connect(conns, websocket, client_id) ==
    IF HasKey(conns, client_id)
    THEN [conns EXCEPT ![SlotOf(conns, client_id)].value = websocket]
    ELSE Append(conns, [key |-> client_id, value |-> websocket])

\* ConnectionManager.disconnect
DisconnectNothing(conns, client_id) == conns
DisconnectClearing(conns, client_id) ==
    [i \in 1..Len(conns) |-> EmptySlot]
Disconnect(conns, client_id) ==
    IF HasKey(conns, client_id)
    THEN [conns EXCEPT ![SlotOf(conns, client_id)] = EmptySlot]
    ELSE conns

\* ConnectionManager.send_message: the WebSockets send_text is called on
\*     if client_id in self.active_connections:
\*         await self.active_connections[client_id].send_text(message)
SendTargets(conns, client_id) ==
    IF HasKey(conns, client_id)
    THEN { conns[SlotOf(conns, client_id)].value }
    ELSE {}

(***************************************************************************)
(* websocket_endpoint: one coroutine per WebSocket.  The WebSocket object  *)
(* of session s is s itself.                                               *)
(***************************************************************************)
NewSession ==
    [pc |-> "new", client_id |-> "", user_message |-> <<>>,
     model |-> DefaultModel, received |-> 0]

\* what a client sends: JSON objects with or without the two fields, text
\* that is no JSON, JSON that is no object
InFrames ==
    { [kind |-> "object", message |-> Some(<<"H", "i">>),
       model |-> Some("quantum-pro")],
      [kind |-> "object", message |-> None, model |-> None],
      [kind |-> "malformed", message |-> None, model |-> None],
      [kind |-> "nonobject", message |-> None, model |-> None] }

\* the two outbound frames (their timestamp is left out)
ConnectionFrame(client_id) ==
    [type |-> "connection", message |-> "Connected to Quantum Travel AI",
     client_id |-> client_id]

MessageFrame(ai_response, model) ==
    [type |-> "message", message |-> ai_response, model |-> model]

\* the handler has returned: the server closes the connection
Closed(s) == [sessions EXCEPT ![s].pc = "closed"]

\* the peer goes away (connection lost, tab closed)
PeerClose(s) ==
    /\ sessions[s].pc \in {"accepted", "receiving", "generating"}
    /\ transport[s] = "open"
    /\ transport' = [transport EXCEPT ![s] = "closed"]
    /\ UNCHANGED <<clock, chatVars, active_connections, sessions, sent, bc>>

\* the client ids seen so far and the next fresh one: client ids are
\* numbered in the order of their first use
ClientIdChoices ==
    LET used == { i \in 1..Len(ClientIds) :
                    \E q \in Sessions : sessions[q].client_id = ClientIds[i] }
    IN { ClientIds[i] :
            i \in { j \in 1..Len(ClientIds) : \A k \in 1..(j - 1) : k \in used } }

\* the handler is called and suspends in websocket.accept().  The sessions
\* are numbered in the order they arrive.
WsAccept(s, client_id) ==
    /\ sessions[s].pc = "new"
    /\ \A q \in Sessions : q < s => sessions[q].pc # "new"
    /\ sessions' = [sessions EXCEPT ![s].pc = "accepted",
                                    ![s].client_id = client_id]
    /\ transport' = [transport EXCEPT ![s] = "open"]
    /\ UNCHANGED <<clock, chatVars, active_connections, sent, bc>>

\* accept() returns: register, then send the welcome frame.  A send on a
\* WebSocket whose peer is gone raises, and the handler disconnects.
WsRegister(s) ==
    /\ sessions[s].pc = "accepted"
    /\ LET client_id == sessions[s].client_id
           conns == Connect(active_connections, s, client_id)
           targets == SendTargets(conns, client_id)
       IN \/ /\ \A w \in targets : transport[w] = "open"
             /\ active_connections' = conns
             /\ sent' = [w \in Sessions |->
                    IF w \in targets
                    THEN Append(sent[w], ConnectionFrame(client_id))
                    ELSE sent[w]]
             /\ sessions' = [sessions EXCEPT ![s].pc = "receiving"]
             /\ UNCHANGED transport
          \/ /\ \E w \in targets : transport[w] = "closed"
             /\ active_connections' = Disconnect(conns, client_id)
             /\ sessions' = Closed(s)
             /\ UNCHANGED <<sent, transport>>
    /\ UNCHANGED <<clock, chatVars, bc>>

\* receive_text() returns a frame (the session's next, of at most `limit`):
\* parse it, start generating.  Text that
\* does not parse, or parses to something without .get, raises, and the
\* handler disconnects.
WsReceiveRecording(s, frame, limit) ==
    /\ sessions[s].pc = "receiving"
    /\ transport[s] = "open"
    /\ sessions[s].received < limit
    /\ \/ /\ frame.kind = "object"
          /\ sessions' = [sessions EXCEPT
                ![s].pc = "generating",
                ![s].received = @ + 1,
                ![s].user_message =
                    IF frame.message.some THEN frame.message.val ELSE <<>>,
                ![s].model =
                    IF frame.model.some THEN frame.model.val ELSE DefaultModel]
          /\ conversation_history' =
                AppendMessage(
                    EnsureRecord(conversation_history,
                                 <<sessions[s].client_id>>),
                    <<sessions[s].client_id>>,
                    NewMessage("user", sessions'[s].user_message, clock))
          /\ UNCHANGED <<active_connections, transport>>
       \/ /\ frame.kind # "object"
          /\ active_connections' =
                Disconnect(active_connections, sessions[s].client_id)
          /\ sessions' = [Closed(s) EXCEPT ![s].received = @ + 1]
          /\ transport' = [transport EXCEPT ![s] = "closed"]
          /\ UNCHANGED conversation_history
    /\ UNCHANGED <<clock, requests, lastHistory, sent, bc>>
WsReceive(s, frame, limit) ==
    /\ sessions[s].pc = "receiving"
    /\ transport[s] = "open"
    /\ sessions[s].received < limit
    /\ \/ /\ frame.kind = "object"
          /\ sessions' = [sessions EXCEPT
                ![s].pc = "generating",
                ![s].received = @ + 1,
                ![s].user_message =
                    IF frame.message.some THEN frame.message.val ELSE <<>>,
                ![s].model =
                    IF frame.model.some THEN frame.model.val ELSE DefaultModel]
          /\ UNCHANGED <<active_connections, transport>>
       \/ /\ frame.kind # "object"
          /\ active_connections' =
                Disconnect(active_connections, sessions[s].client_id)
          /\ sessions' = [Closed(s) EXCEPT ![s].received = @ + 1]
          /\ transport' = [transport EXCEPT ![s] = "closed"]
    /\ UNCHANGED <<clock, chatVars, sent, bc>>

\* receive_text() raises WebSocketDisconnect
WsDisconnect(s) ==
    /\ sessions[s].pc = "receiving"
    /\ transport[s] = "closed"
    /\ active_connections' =
            Disconnect(active_connections, sessions[s].client_id)
    /\ sessions' = Closed(s)
    /\ UNCHANGED <<clock, chatVars, transport, sent, bc>>

\* generate_response returns: send the reply with send_message
WsReplyRaisingOnAbsent(s) ==
    /\ sessions[s].pc = "generating"
    /\ LET client_id == sessions[s].client_id
           ai_response ==
               GenerateResponse(sessions[s].user_message, sessions[s].model,
                                <<>>)
           targets == SendTargets(active_connections, client_id)
       IN \/ /\ targets # {}
             /\ \A w \in targets : transport[w] = "open"
             /\ sent' = [w \in Sessions |->
                    IF w \in targets
                    THEN Append(sent[w],
                                MessageFrame(ai_response, sessions[s].model))
                    ELSE sent[w]]
             /\ sessions' = [sessions EXCEPT ![s].pc = "receiving"]
             /\ UNCHANGED <<active_connections, transport>>
          \/ /\ targets = {} \/ \E w \in targets : transport[w] = "closed"
             /\ active_connections' = Disconnect(active_connections, client_id)
             /\ sessions' = Closed(s)
             /\ transport' = [transport EXCEPT ![s] = "closed"]
             /\ UNCHANGED sent
    /\ UNCHANGED <<clock, chatVars, bc>>
WsReply(s) ==
    /\ sessions[s].pc = "generating"
    /\ LET client_id == sessions[s].client_id
           ai_response ==
               GenerateResponse(sessions[s].user_message, sessions[s].model,
                                <<>>)
           targets == SendTargets(active_connections, client_id)
       IN \/ /\ \A w \in targets : transport[w] = "open"
             /\ sent' = [w \in Sessions |->
                    IF w \in targets
                    THEN Append(sent[w],
                                MessageFrame(ai_response, sessions[s].model))
                    ELSE sent[w]]
             /\ sessions' = [sessions EXCEPT ![s].pc = "receiving"]
             /\ UNCHANGED <<active_connections, transport>>
          \/ /\ \E w \in targets : transport[w] = "closed"
             /\ active_connections' = Disconnect(active_connections, client_id)
             /\ sessions' = Closed(s)
             /\ transport' = [transport EXCEPT ![s] = "closed"]
             /\ UNCHANGED sent
    /\ UNCHANGED <<clock, chatVars, bc>>

(***************************************************************************)
(* ConnectionManager.broadcast:                                            *)
(*     for connection in self.active_connections.values():                 *)
(*         await connection.send_text(message)                             *)
(* The loop iterates the live dict.  The dict iterator remembers the size  *)
(* of the dict at its creation (di_used), its slot position (di_pos) and   *)
(* the number of entries it still expects (len); it raises RuntimeError    *)
(* when the size differs, or when it finds an entry it did not expect.     *)
(* `registered` and `attempted` record, for the properties, the WebSockets *)
(* registered at the call and those send_text was called on.               *)
(***************************************************************************)
BroadcastPayloads == { "notice" }

IdleBroadcast ==
    [pc |-> "idle", message |-> "", di_pos |-> 0, di_used |-> 0, len |-> 0,
     calls |-> 0, registered |-> {}, attempted |-> {}]

\* the slots after di_pos that hold an entry
SlotsAfter(conns, pos) == { i \in LiveSlots(conns) : i > pos }
NextSlot(conns, pos) ==
    CHOOSE i \in SlotsAfter(conns, pos) :
        \A j \in SlotsAfter(conns, pos) : i <= j

\* one turn of the loop: next(iterator), then send_text up to its suspension
BroadcastTurn(b) ==
    \/ /\ b.di_used # DictLen(active_connections)
       /\ bc' = [b EXCEPT !.pc = "raised"]
       /\ UNCHANGED sent
    \/ /\ b.di_used = DictLen(active_connections)
       /\ SlotsAfter(active_connections, b.di_pos) = {}
       /\ bc' = [b EXCEPT !.pc = "returned"]
       /\ UNCHANGED sent
    \/ /\ b.di_used = DictLen(active_connections)
       /\ SlotsAfter(active_connections, b.di_pos) # {}
       /\ b.len = 0
       /\ bc' = [b EXCEPT !.pc = "raised"]
       /\ UNCHANGED sent
    \/ /\ b.di_used = DictLen(active_connections)
       /\ SlotsAfter(active_connections, b.di_pos) # {}
       /\ b.len > 0
       /\ LET i == NextSlot(active_connections, b.di_pos)
              connection == active_connections[i].value
              it == [b EXCEPT !.di_pos = i, !.len = @ - 1,
                              !.attempted = @ \cup {connection}]
          IN \/ /\ transport[connection] = "open"
                /\ sent' = [sent EXCEPT ![connection] =
                                Append(@, [type |-> "text",
                                           message |-> b.message])]
                /\ bc' = [it EXCEPT !.pc = "sending"]
             \/ /\ transport[connection] = "closed"
                /\ bc' = [it EXCEPT !.pc = "raised"]
                /\ UNCHANGED sent

\* broadcast(message) is called: the iterator is made, the first turn runs
BroadcastCall(message) ==
    /\ bc.pc \in {"idle", "returned", "raised"}
    /\ bc.calls < MaxBroadcasts
    /\ BroadcastTurn([pc |-> "sending", message |-> message, di_pos |-> 0,
                      di_used |-> DictLen(active_connections),
                      len |-> DictLen(active_connections),
                      calls |-> bc.calls + 1,
                      registered |-> DictValues(active_connections),
                      attempted |-> {}])
    /\ UNCHANGED <<clock, chatVars, active_connections, sessions, transport>>

\* send_text returns: the next turn of the loop
BroadcastResume ==
    /\ bc.pc = "sending"
    /\ BroadcastTurn(bc)
    /\ UNCHANGED <<clock, chatVars, active_connections, sessions, transport>>

(***************************************************************************)
(* The specifications.                                                     *)
(***************************************************************************)
Init ==
    /\ clock = ClockStart
    /\ conversation_history = <<>>
    /\ requests = [r \in Reqs |-> IdleRequest]
    /\ lastHistory = NoHistory
    /\ active_connections = <<>>
    /\ sessions = [s \in Sessions |-> NewSession]
    /\ transport = [s \in Sessions |-> "closed"]
    /\ sent = [s \in Sessions |-> <<>>]
    /\ bc = IdleBroadcast

\* the chat endpoint, for the requests R, with the request bodies and the
\* made-up conversation ids the clients use
ChatStepBlocking(R, bodies, ids) ==
    \/ \E r \in R, body \in bodies, supplied \in SuppliedChoices(ids),
          adv \in 0..1 :
            /\ \A q \in Reqs : requests[q].pc # "generating"
            /\ \A w \in Sessions : sessions[w].pc # "generating"
            /\ ChatStart(r, body.message, supplied, body.model, adv)
    \/ \E r \in R :
            /\ \A q \in Reqs \ {r} : requests[q].pc # "generating"
            /\ \A w \in Sessions : sessions[w].pc # "generating"
            /\ ChatFinish(r)
ChatStep(R, bodies, ids) ==
    \/ \E r \in R, body \in bodies, supplied \in SuppliedChoices(ids),
          adv \in 0..1 :
            ChatStart(r, body.message, supplied, body.model, adv)
    \/ \E r \in R : ChatFinish(r)

\* the history endpoint
HistoryStep(ids) ==
    \E conversation_id \in QueryIds(ids) : GetHistory(conversation_id)

\* the same, each request completing before the next starts
SeqStep(R, bodies, ids) ==
    \/ \E r \in R, body \in bodies, supplied \in SuppliedChoices(ids),
          adv \in 0..1 :
            /\ \A q \in Reqs : requests[q].pc # "generating"
            /\ ChatStart(r, body.message, supplied, body.model, adv)
    \/ \E r \in R : ChatFinish(r)

\* the WebSocket endpoint and the connection manager, for the sessions S
WsStep(S, limit) ==
    \/ \E s \in S, client_id \in ClientIdChoices : WsAccept(s, client_id)
    \/ \E s \in S : WsRegister(s)
    \/ \E s \in S, frame \in InFrames : WsReceive(s, frame, limit)
    \/ \E s \in S : WsDisconnect(s)
    \/ \E s \in S : WsReply(s)
    \/ \E s \in S : PeerClose(s)
    \/ \E message \in BroadcastPayloads : BroadcastCall(message)
    \/ BroadcastResume

\* chat requests one after another, and history reads
NextSeq ==
    \/ Tick
    \/ SeqStep(Reqs, ChatBodies, CallerIds)
    \/ HistoryStep(CallerIds)
SpecSeq == Init /\ [][NextSeq]_vars

\* concurrent chat requests
NextChat == Tick \/ ChatStep(Reqs, ChatBodies, CallerIds)
SpecChat == Init /\ [][NextChat]_vars

\* WebSocket sessions and broadcasts
NextWs == WsStep(1..MaxSessions, MaxFrames)
SpecWs == Init /\ [][NextWs]_vars

\* the registry alone: connections that come and go without sending a frame
NextReg ==
    \/ \E s \in Sessions, client_id \in ClientIdChoices : WsAccept(s, client_id)
    \/ \E s \in Sessions : WsRegister(s)
    \/ \E s \in Sessions : WsDisconnect(s)
    \/ \E s \in Sessions : PeerClose(s)
SpecReg == Init /\ [][NextReg]_vars

\* concurrent chat requests whose generation may fail
FailIds == { <<"a">> }
NextFail ==
    \/ Tick
    \/ ChatStep(Reqs, ChatBodies, FailIds)
    \/ \E r \in Reqs : ChatFail(r)
SpecFail == Init /\ [][NextFail]_vars

\* everything together, on fewer inputs
MixBodies == { [message |-> <<"H", "i">>, model |-> "quantum-ai"] }
MixIds == { <<"a">> }
Next ==
    \/ Tick
    \/ ChatStep(1..MixReqs, MixBodies, MixIds)
    \/ HistoryStep(MixIds)
    \/ WsStep(1..MixSessions, MixFrames)
Spec == Init /\ [][Next]_vars

\* one WebSocket session: the steps of its handler and of its peer
SessionStep(s, limit) ==
    \/ \E client_id \in ClientIdChoices : WsAccept(s, client_id)
    \/ WsRegister(s)
    \/ \E frame \in InFrames : WsReceive(s, frame, limit)
    \/ WsDisconnect(s)
    \/ WsReply(s)
    \/ PeerClose(s)

\* chat requests, whose generation may fail, next to WebSocket sessions,
\* on the event loop: a coroutine suspended in asyncio.sleep is resumed
\* when its timer has run out, so a request that is generating is not left
\* waiting for ever
NextLive ==
    \/ Tick
    \/ ChatStep(1..MixReqs, MixBodies, MixIds)
    \/ \E r \in 1..MixReqs : ChatFail(r)
    \/ \E s \in 1..MixSessions : SessionStep(s, MixFrames)
SpecLive ==
    /\ Init
    /\ [][NextLive]_vars
    /\ \A r \in 1..MixReqs : WF_vars(ChatFinish(r) \/ ChatFail(r))

(***************************************************************************)
(* Properties.                                                             *)
(***************************************************************************)
IsPrefix(a, b) == Len(a) <= Len(b) /\ SubSeq(b, 1, Len(a)) = a

Started == { r \in Reqs : requests[r].pc # "idle" }
\* the requests answered with a ChatResponse, and those answered with 500
Finished == { r \in Reqs : requests[r].response.status = 200 }
Failed == { r \in Reqs : requests[r].response.status = 500 }

\* the requests that ran on conversation id c; their numbers are the
\* order of the calls
CallsOn(c) == { r \in Started : requests[r].conversation_id = c }
KthCall(c, k) ==
    CHOOSE r \in CallsOn(c) : Cardinality({ q \in CallsOn(c) : q <= r }) = k

\* C1: after N chat requests on one conversation id, each completed before
\* the next started, get_history of that id answers with exactly 2N
\* messages: user, assistant, user, assistant, ..., the k-th user message
\* carrying the text of the k-th request.
C1_SequentialHistory ==
    LET c == lastHistory.asked
        m == lastHistory.result.messages
        N == Cardinality(CallsOn(c))
    IN (/\ lastHistory.result.status # 0
        /\ N >= 1
        /\ \A r \in CallsOn(c) :
              requests[r].pc = "done" /\ requests[r].response.status = 200)
       => /\ lastHistory.result.status = 200
          /\ lastHistory.result.conversation_id = c
          /\ Len(m) = 2 * N
          /\ \A k \in 1..N :
                /\ m[2 * k - 1].role = "user"
                /\ m[2 * k - 1].content = requests[KthCall(c, k)].message
                /\ m[2 * k].role = "assistant"

\* get_history has just answered for an id that two completed requests
\* with different texts ran on
C1_Witness ==
    LET c == lastHistory.asked
    IN /\ lastHistory.result.status = 200
       /\ Cardinality(CallsOn(c)) >= 2
       /\ CallsOn(c) \subseteq Finished
       /\ requests[KthCall(c, 1)].message # requests[KthCall(c, 2)].message

\* every started request came with a non-empty conversation id of its own
DistinctSupplied ==
    \A r \in Started :
        /\ Truthy(requests[r].supplied)
        /\ \A q \in Started \ {r} :
              requests[q].supplied.val # requests[r].supplied.val

\* C2: concurrent chat requests with pairwise distinct caller-supplied
\* ids: once all have completed, the history of each id is exactly that
\* request's user message followed by that request's assistant reply, and
\* there is no other record.
C2_NoCrossContamination ==
    (Started # {} /\ Started = Finished /\ DistinctSupplied)
    => /\ DOMAIN conversation_history
            = { requests[r].supplied.val : r \in Started }
       /\ \A r \in Started :
            LET h == conversation_history[requests[r].supplied.val]
            IN /\ Len(h) = 2
               /\ h[1].role = "user"
               /\ h[1].content = requests[r].message
               /\ h[2].role = "assistant"
               /\ h[2].content = requests[r].response.response
               /\ h[2].content
                    = GenerateResponse(requests[r].message, requests[r].model, h)

\* two requests with different ids and different texts have completed,
\* each having started before the other one finished (the timestamps of
\* the messages show the overlap)
C2_Witness ==
    /\ Started = Finished
    /\ DistinctSupplied
    /\ \E r, q \in Started :
        /\ r # q
        /\ requests[r].message # requests[q].message
        /\ LET hr == conversation_history[requests[r].supplied.val]
               hq == conversation_history[requests[q].supplied.val]
           IN /\ Len(hr) = 2 /\ Len(hq) = 2
              /\ hr[1].timestamp < hq[2].timestamp
              /\ hq[1].timestamp < hr[2].timestamp

\* C3: across every step, every existing conversation keeps its record and
\* the old message sequence is a prefix of the new one.
C3_AppendOnly ==
    [][\A c \in DOMAIN conversation_history :
          /\ c \in DOMAIN conversation_history'
          /\ IsPrefix(conversation_history[c], conversation_history'[c])]_vars

\* a record that a second request extended, next to WebSocket traffic
C3_Witness ==
    /\ \E c \in DOMAIN conversation_history :
          Len(conversation_history[c]) = 4
    /\ \E s \in Sessions : Len(sent[s]) >= 2

\* C4: get_history asked for an id that no chat request has used answers
\* 200 with that id and an empty message list.
C4_UnknownHistory ==
    (lastHistory.result.status # 0 /\ CallsOn(lastHistory.asked) = {})
    => lastHistory.result =
          [status |-> 200, conversation_id |-> lastHistory.asked,
           messages |-> <<>>]

\* get_history has answered for an unused id while other records exist
C4_Witness ==
    /\ lastHistory.result.status # 0
    /\ CallsOn(lastHistory.asked) = {}
    /\ lastHistory.asked # <<>>
    /\ DOMAIN conversation_history # {}

\* the record of id c in store h, empty when there is none
RecordOf(h, c) == IF c \in DOMAIN h THEN h[c] ELSE <<>>

\* store h2 is store h1 with one message of the given role and content
\* appended to the record of c, and nothing else changed
AppendedOnlyTo(h1, h2, c, role, content) ==
    /\ DOMAIN h2 = DOMAIN h1 \cup {c}
    /\ \A x \in DOMAIN h1 \ {c} : h2[x] = h1[x]
    /\ Len(h2[c]) = Len(RecordOf(h1, c)) + 1
    /\ IsPrefix(RecordOf(h1, c), h2[c])
    /\ h2[c][Len(h2[c])].role = role
    /\ h2[c][Len(h2[c])].content = content

\* C5: a chat request that supplies a non-empty conversation id, known or
\* not, appends its user message and then its assistant message to the
\* record of that id and to no other, and answers with that id.
C5_SuppliedIdUsed ==
    [][\A r \in Reqs :
        /\ (/\ requests[r].pc = "idle"
            /\ requests'[r].pc = "generating"
            /\ Truthy(requests'[r].supplied))
           => AppendedOnlyTo(conversation_history, conversation_history',
                             requests'[r].supplied.val, "user",
                             requests'[r].message)
        /\ (/\ requests[r].pc = "generating"
            /\ requests'[r].response.status = 200
            /\ Truthy(requests[r].supplied))
           => /\ requests'[r].pc = "done"
              /\ requests'[r].response.conversation_id
                    = requests[r].supplied.val
              /\ AppendedOnlyTo(conversation_history, conversation_history',
                                requests[r].supplied.val, "assistant",
                                requests'[r].response.response)]_vars

\* a request has completed on the id that an earlier request without an
\* id was answered with
C5_Witness ==
    \E r, q \in Finished :
        /\ q < r
        /\ requests[q].supplied = None
        /\ requests[r].supplied = Some(requests[q].response.conversation_id)
        /\ requests[r].response.conversation_id = requests[r].supplied.val
        /\ Len(conversation_history[requests[r].supplied.val]) = 4

\* the completed requests that came without a usable conversation id
Unsupplied == { r \in Finished : ~Truthy(requests[r].supplied) }

Replied(s) ==
    sessions[s].pc = "generating" /\ sessions'[s].pc = "receiving"

\* C7: the reply to a frame is sent on the WebSocket the frame came in on,
\* also when a second connection has registered under the same client id.
C7_ReplyOnSameChannel ==
    [][\A s \in Sessions :
          Replied(s)
          => /\ Len(sent'[s]) = Len(sent[s]) + 1
             /\ sent'[s][Len(sent'[s])].type = "message"
             /\ \A w \in Sessions \ {s} : sent'[w] = sent[w]]_vars

\* C8: when an inbound frame does not parse as JSON the session stays
\* open: the registry entry is kept, nothing is sent for the frame, and
\* the loop waits for the next frame.
C8_MalformedFrameKeepsSession ==
    [][\A s \in Sessions, frame \in InFrames :
          (frame.kind = "malformed" /\ WsReceive(s, frame, MaxFrames))
          => /\ sessions'[s].pc = "receiving"
             /\ active_connections' = active_connections
             /\ sent' = sent]_vars

\* C9: the step that ends a session (disconnect or error) leaves its client
\* id out of the registry, and a closed session stays closed: it receives,
\* generates and sends nothing any more, and nothing is sent on its
\* WebSocket.
C9_ClosedIsTerminal ==
    [][\A s \in Sessions :
          /\ (sessions[s].pc # "closed" /\ sessions'[s].pc = "closed")
             => ~HasKey(active_connections', sessions[s].client_id)
          /\ sessions[s].pc = "closed"
             => /\ sessions'[s] = sessions[s]
                /\ sent'[s] = sent[s]
                /\ s \notin DictValues(active_connections')]_vars

\* one session has closed after answering a frame while another session,
\* connected under the same client id, is still open
C9_Witness ==
    \E s, w \in Sessions :
        /\ s # w
        /\ sessions[s].pc = "closed"
        /\ Len(sent[s]) >= 2
        /\ sessions[w].pc \in {"receiving", "generating"}
        /\ sessions[w].client_id = sessions[s].client_id

\* C10: broadcast sends to every WebSocket that was registered when it was
\* called and never raises, whatever fails or changes while it is
\* suspended in a send.
C10_BroadcastReachesAll ==
    bc.pc \in {"returned", "raised"}
    => /\ bc.pc = "returned"
       /\ bc.registered \subseteq bc.attempted

\* the positions of the entries of a record with the given role
RolePositions(h, role) == { i \in 1..Len(h) : h[i].role = role }

\* the position of the k-th user message of a record.  User messages are
\* appended in the order the requests arrive, so the k-th one belongs to
\* the k-th request that ran on the conversation.
UserPos(h, k) ==
    CHOOSE i \in RolePositions(h, "user") :
        Cardinality({ j \in RolePositions(h, "user") : j <= i }) = k

\* request r arrived as the Rank-th of those that ran on its conversation
Rank(r) ==
    Cardinality({ q \in CallsOn(requests[r].conversation_id) : q <= r })

\* the step in which the generation of request r fails
Fails(r) ==
    requests[r].pc = "generating" /\ requests'[r].response.status = 500

\* C11 as stated: when generation fails the request is answered 500, the
\* store is as it was, and the last entry of the conversation is the user
\* message this request appended.
C11_UserMessageLast ==
    [][\A r \in Reqs :
          Fails(r)
          => LET h == conversation_history'[requests[r].conversation_id]
             IN /\ requests'[r].pc = "done"
                /\ conversation_history' = conversation_history
                /\ UserPos(h, Rank(r)) = Len(h)
                /\ h[Len(h)].content = requests[r].message]_vars

\* C11, amended: when generation fails the request is answered 500 and the
\* failure changes nothing in the store: the user message the request
\* appended is still in its conversation, the conversation holds one
\* assistant message per request that was answered and none for this one,
\* and no other conversation changes.  The user message is the last entry
\* when no other request ran on the conversation.
C11_FailureKeepsUserMessage ==
    [][\A r \in Reqs :
          Fails(r)
          => LET c == requests[r].conversation_id
                 h == conversation_history'[c]
             IN /\ requests'[r].pc = "done"
                /\ requests'[r].response.conversation_id = <<>>
                /\ conversation_history' = conversation_history
                /\ Cardinality(RolePositions(h, "user"))
                      = Cardinality(CallsOn(c))
                /\ h[UserPos(h, Rank(r))].content = requests[r].message
                /\ Cardinality(RolePositions(h, "assistant"))
                      = Cardinality({ q \in CallsOn(c) :
                                        requests'[q].response.status = 200 })
                /\ CallsOn(c) = {r}
                      => h = <<[role |-> "user",
                                content |-> requests[r].message,
                                timestamp |-> h[1].timestamp]>>]_vars

\* a generation has failed on a conversation that another request, with
\* another text, was answered on
C11_Witness ==
    \E r \in Failed, q \in Finished :
        /\ q # r
        /\ requests[q].conversation_id = requests[r].conversation_id
        /\ requests[q].message # requests[r].message
        /\ Len(conversation_history[requests[r].conversation_id]) = 3

\* the frames of the given type among those delivered on a WebSocket
FramesOfType(frames, type) ==
    { i \in 1..Len(frames) : frames[i].type = type }

\* C12: on every WebSocket the first frame delivered is the connection
\* acknowledgement with the client id of that connection, no other frame
\* is one, and then each inbound frame that parses is answered by exactly
\* one "message" frame on that WebSocket, in the order of the inbound
\* frames: while the session waits for a frame there are as many "message"
\* frames as frames received, and a reply step appends the reply to the
\* session's last frame.
C12_AckThenOneReplyPerFrame ==
    [][\A s \in Sessions :
          /\ sent'[s] # <<>>
             => /\ sent'[s][1] = ConnectionFrame(sessions'[s].client_id)
                /\ FramesOfType(sent'[s], "connection") = {1}
          /\ sessions'[s].pc = "receiving"
             => Cardinality(FramesOfType(sent'[s], "message"))
                    = sessions'[s].received
          /\ Replied(s)
             => sent'[s] =
                  Append(sent[s],
                         MessageFrame(
                            GenerateResponse(sessions[s].user_message,
                                             sessions[s].model, <<>>),
                            sessions[s].model))]_vars

\* no client id is the key of two entries of the registry
KeysUnique(conns) ==
    \A i, j \in LiveSlots(conns) : conns[i].key = conns[j].key => i = j

\* the step in which the connect of session s completes (and the welcome
\* frame is sent)
Connected(s) ==
    sessions[s].pc = "accepted" /\ sessions'[s].pc = "receiving"

\* C13: the registry never holds two entries for one client id; when a
\* connect completes the registry maps the client id to the WebSocket of
\* that connect, whatever it mapped the id to before, and maps every other
\* client id as before.
C13_RegistryMapping ==
    [][/\ KeysUnique(active_connections)
       /\ KeysUnique(active_connections')
       /\ \A s \in Sessions :
            Connected(s)
            => /\ SendTargets(active_connections', sessions[s].client_id) = {s}
               /\ \A i \in 1..Len(ClientIds) :
                    ClientIds[i] # sessions[s].client_id
                    => SendTargets(active_connections', ClientIds[i])
                        = SendTargets(active_connections, ClientIds[i])]_vars

\* a third connect has taken over the client id of the first, still open,
\* connection while the second connection is registered under another id
C13_Witness ==
    \E s, w, x \in Sessions :
        /\ s < x
        /\ sessions[s].pc = "receiving"
        /\ sessions[x].pc = "receiving"
        /\ sessions[s].client_id = sessions[x].client_id
        /\ sessions[w].client_id # sessions[x].client_id
        /\ SendTargets(active_connections, sessions[x].client_id) = {x}
        /\ SendTargets(active_connections, sessions[w].client_id) = {w}

\* C14: disconnect of a registered client id removes the entry of that id
\* and no other, disconnect of an absent id leaves the registry as it is,
\* and a second disconnect of the same id changes nothing more.  (The code
\* tests membership before it deletes, so it has no failing path.)
C14_DisconnectIdempotent ==
    \A i \in 1..Len(ClientIds) :
        LET client_id == ClientIds[i]
            once == Disconnect(active_connections, client_id)
        IN /\ ~HasKey(once, client_id)
           /\ \A j \in 1..Len(ClientIds) :
                j # i => SendTargets(once, ClientIds[j])
                            = SendTargets(active_connections, ClientIds[j])
           /\ ~HasKey(active_connections, client_id)
                => once = active_connections
           /\ Disconnect(once, client_id) = once

\* two connections under one client id have both ended, the second of
\* them disconnecting an id that was no longer registered, while another
\* client id is registered
C14_Witness ==
    \E s, w, x \in Sessions :
        /\ s # w
        /\ sessions[s].pc = "closed"
        /\ sessions[w].pc = "closed"
        /\ Len(sent[s]) = 1
        /\ Len(sent[w]) = 1
        /\ sessions[s].client_id = sessions[w].client_id
        /\ ~HasKey(active_connections, sessions[s].client_id)
        /\ SendTargets(active_connections, sessions[x].client_id) = {x}

\* C15: send_message for a client id that is not in the registry sends
\* nothing on any WebSocket, raises nothing (the calling session goes on to
\* wait for its next frame) and changes neither the registry nor the
\* conversation store.  The handler makes such a call when it replies after
\* another connection under the same client id has ended.
C15_SendToAbsentIsNoop ==
    [][\A s \in Sessions :
          (/\ sessions[s].pc = "generating"
           /\ sessions'[s].pc # "generating"
           /\ ~HasKey(active_connections, sessions[s].client_id))
          => /\ sent' = sent
             /\ sessions'[s].pc = "receiving"
             /\ active_connections' = active_connections
             /\ conversation_history' = conversation_history]_vars

\* a session has answered a frame while its client id was not registered:
\* it waits for its next frame and no "message" frame was sent anywhere
C15_Witness ==
    \E s \in Sessions :
        /\ sessions[s].pc = "receiving"
        /\ sessions[s].received >= 1
        /\ ~HasKey(active_connections, sessions[s].client_id)
        /\ \A w \in Sessions : FramesOfType(sent[w], "message") = {}

\* C16: a step of a WebSocket session or of the connection manager (accept,
\* register and welcome, receive, reply, disconnect, broadcast), that is a
\* step that changes a session, a WebSocket or the registry, leaves the
\* conversation store as it is.
C16_WebSocketLeavesStore ==
    [][wsVars' # wsVars
          => conversation_history' = conversation_history]_vars

\* a WebSocket session has been answered and has ended while the store
\* holds the record of an answered chat request
C16_Witness ==
    /\ \E c \in DOMAIN conversation_history :
          Len(conversation_history[c]) = 2
    /\ \E s \in Sessions :
          /\ sessions[s].pc = "closed"
          /\ FramesOfType(sent[s], "message") # {}

\* session s is past its connect and has not ended
Open(s) == sessions[s].pc \in {"receiving", "generating"}

\* C17: the step that ends one session (disconnect or error) leaves the
\* registry entry of every other session that is still open in place, and
\* once a session has ended the replies of the others still go out on their
\* own WebSockets; also for two open sessions with one client id.
C17_SessionsIsolated ==
    [][\A s, w \in Sessions :
          s # w
          => /\ (/\ sessions[s].pc # "closed"
                 /\ sessions'[s].pc = "closed"
                 /\ Open(w)
                 /\ w \in DictValues(active_connections))
                => w \in DictValues(active_connections')
             /\ (sessions[s].pc = "closed" /\ Replied(w))
                => /\ Len(sent'[w]) = Len(sent[w]) + 1
                   /\ sent'[w][Len(sent'[w])].type = "message"]_vars

\* record h holds, for every request of the set calls, an assistant
\* message with that request's reply at a position of its own after the
\* request's user message
RepliesFollow(h, calls) ==
    \E f \in [calls -> RolePositions(h, "assistant")] :
        /\ \A r, q \in calls : f[r] = f[q] => r = q
        /\ \A r \in calls :
              /\ h[f[r]].content = requests[r].response.response
              /\ f[r] > UserPos(h, Rank(r))

\* C18: once the k requests that ran on a conversation id, concurrently
\* or not, have all been answered, its history has exactly 2k messages, k
\* of the user and k of the assistant: the user messages of the requests
\* in the order the requests arrived, and for every request its reply at
\* a position of its own after its user message.
C18_NoLostAppend ==
    \A c \in DOMAIN conversation_history :
        LET h == conversation_history[c]
            k == Cardinality(CallsOn(c))
        IN CallsOn(c) \subseteq Finished
           => /\ Len(h) = 2 * k
              /\ Cardinality(RolePositions(h, "user")) = k
              /\ Cardinality(RolePositions(h, "assistant")) = k
              /\ \A r \in CallsOn(c) :
                    h[UserPos(h, Rank(r))].content = requests[r].message
              /\ RepliesFollow(h, CallsOn(c))

\* two requests with different texts ran on one id at the same time and
\* the one that arrived second was answered first
C18_Witness ==
    \E c \in DOMAIN conversation_history :
        LET h == conversation_history[c]
        IN /\ CallsOn(c) \subseteq Finished
           /\ Cardinality(CallsOn(c)) = 2
           /\ Len(h) = 4
           /\ h[2].role = "user"
           /\ h[1].content # h[2].content
           /\ h[3].content = requests[KthCall(c, 2)].response.response
           /\ h[4].content = requests[KthCall(c, 1)].response.response

\* C19: two requests without a supplied id that read the same clock value
\* for their id are answered with the same id and share one record: the
\* store has fewer records than requests, and when the two are the only
\* requests on that id the record holds their four messages.
C19_EqualClockCollision ==
    \A r, q \in Unsupplied :
        (r # q /\ requests[r].id_clock = requests[q].id_clock)
        => LET c == requests[r].response.conversation_id
               h == conversation_history[c]
           IN /\ requests[q].response.conversation_id = c
              /\ Cardinality(DOMAIN conversation_history)
                    < Cardinality(Started)
              /\ CallsOn(c) = {r, q}
                    => /\ Len(h) = 4
                       /\ { h[i].content : i \in RolePositions(h, "user") }
                            = { requests[r].message, requests[q].message }
                       /\ { h[i].content : i \in RolePositions(h, "assistant") }
                            = { requests[r].response.response,
                                requests[q].response.response }

\* two requests with different texts and no conversation_id field were
\* answered on the id of one clock reading
C19_Witness ==
    \E r, q \in Unsupplied :
        /\ r # q
        /\ requests[r].supplied = None
        /\ requests[q].supplied = None
        /\ requests[r].id_clock = requests[q].id_clock
        /\ requests[r].message # requests[q].message
        /\ Cardinality(DOMAIN conversation_history) = 1

\* the code point order of the characters of a timestamp: "." is before
\* the digits
CharRank(c) ==
    IF c = "." THEN 0
    ELSE CHOOSE i \in 1..10 : DigitChars[i] = c

\* a <= b as Python compares strings
RECURSIVE TextLeq(_, _)
TextLeq(a, b) ==
    IF a = <<>> THEN TRUE
    ELSE IF b = <<>> THEN FALSE
    ELSE IF a[1] = b[1] THEN TextLeq(Tail(a), Tail(b))
    ELSE CharRank(a[1]) < CharRank(b[1])

\* C20: with a clock that never goes back, in every state and for every
\* interleaving the messages of every conversation carry timestamps that
\* do not decrease along the list, as clock readings and as the ISO text
\* the code stores.
C20_TimestampsMonotonic ==
    \A c \in DOMAIN conversation_history :
        LET h == conversation_history[c]
        IN \A i \in 1..(Len(h) - 1) :
              /\ h[i].timestamp <= h[i + 1].timestamp
              /\ TextLeq(IsoFormat(h[i].timestamp),
                         IsoFormat(h[i + 1].timestamp))

\* two requests ran on one id at the same time, and the clock moved
\* between the first and the last message of the record
C20_Witness ==
    \E c \in DOMAIN conversation_history :
        LET h == conversation_history[c]
        IN /\ Len(h) = 4
           /\ h[2].role = "user"
           /\ h[1].timestamp < h[4].timestamp
           /\ IsoFormat(h[1].timestamp) # IsoFormat(h[4].timestamp)

\* request q is the next one to arrive
NextToArrive(q) ==
    /\ requests[q].pc = "idle"
    /\ \A x \in Reqs : x < q => requests[x].pc # "idle"

\* session s is the next one to arrive
SessionToArrive(s) ==
    /\ sessions[s].pc = "new"
    /\ \A x \in Sessions : x < s => sessions[x].pc # "new"

\* a chat request or a WebSocket session is suspended in generate_response
Generating(R, S) ==
    \/ \E r \in R : requests[r].pc = "generating"
    \/ \E s \in S : sessions[s].pc = "generating"

\* while a request or session other than request q and session s is
\* generating, q and s are not held up: a request that arrives is started,
\* a request whose generation is over is resumed, and a session whose
\* accept or generation is over is resumed
NotBlocked ==
    /\ \A q \in 1..MixReqs :
          (/\ Generating((1..MixReqs) \ {q}, 1..MixSessions)
           /\ NextToArrive(q) \/ requests[q].pc = "generating")
          => ENABLED ChatStep({q}, MixBodies, MixIds)
    /\ \A s \in 1..MixSessions :
          (/\ Generating(1..MixReqs, (1..MixSessions) \ {s})
           /\ \/ SessionToArrive(s)
              \/ sessions[s].pc \in {"accepted", "generating"})
          => ENABLED (\/ \E client_id \in ClientIdChoices :
                            WsAccept(s, client_id)
                      \/ WsRegister(s)
                      \/ WsReply(s))

\* C21: on the event loop every chat request that has started is in the
\* end answered, with a response or with the internal error, and at every
\* moment at which a request or session is suspended in generation every
\* other request and session can take its next step.
C21_CompletesAndNeverBlocks ==
    /\ []NotBlocked
    /\ \A r \in 1..MixReqs :
          (requests[r].pc = "generating")
              ~> (requests[r].response.status \in {200, 500})

\* the request that arrived second has been answered while the first is
\* still generating, and a WebSocket session has been answered meanwhile
C21_Witness ==
    /\ requests[1].pc = "generating"
    /\ requests[2].response.status \in {200, 500}
    /\ \E s \in Sessions : FramesOfType(sent[s], "message") # {}

====
